---- MODULE Spec2Model ----
(***************************************************************************)
(* Memforge backend: the flashcard generation route and the deck CRUD      *)
(* routes of backend/server.js, with the Mongoose schema of                *)
(* backend/models/Deck.js; and the save of a generated deck in the React   *)
(* App, with services/api.js.                                              *)
(*                                                                         *)
(* JavaScript strings are sequences of one-character strings; JavaScript   *)
(* values are records tagged by their type in field t.                     *)
(***************************************************************************)
EXTENDS Integers, Sequences, FiniteSets, TLC

VARIABLES
    API_KEY,      \* process.env.GEMINI_API_KEY is set (server.js:39)
    genPc,        \* position of the generate handler: "idle", "fetching", "done"
    genText,      \* req.body.text of the generate request being handled
    genOutcome,   \* what the awaited fetch produced for that request
    genRes,       \* the response the generate handler sent
    prompt,       \* the text in the prompt the provider received last
    decks,        \* the decks collection: id -> stored document
    nextId,       \* number of ObjectIds handed out so far, plus one
    now,          \* Date.now()
    pending,      \* client -> the findByIdAndUpdate that client's request awaits
    res,          \* the response of the deck route that completed last
    view,         \* App state: 'home' or 'study'
    loading,      \* App state: a generate or a save is under way
    currentDeck,  \* App state: null, a generated deck, or a deck of the store
    savedDecks,   \* App state: the decks the last loadDecks() received
    deckName,     \* App state: the text of the deck name input
    errorText,    \* App state error: the message shown, "" for null
    generating,   \* a call of generateFlashcards awaits its response
    saves         \* the calls of saveDeckHandler under way, in order of start

genVars == <<API_KEY, genPc, genText, genOutcome, genRes, prompt>>
deckVars == <<decks, nextId, now, pending, res>>
uiVars == <<view, loading, currentDeck, savedDecks, deckName, errorText,
            generating, saves>>
vars == <<API_KEY, genPc, genText, genOutcome, genRes, prompt,
          decks, nextId, now, pending, res,
          view, loading, currentDeck, savedDecks, deckName, errorText,
          generating, saves>>

----------------------------------------------------------------------------
(* Bounds *)

MaxTextLen == 2   \* longest request text of a generate request
MaxDecks == 2     \* ObjectIds handed out
MaxTime == 1      \* last clock value
MaxSaves == 2     \* calls of saveDeckHandler under way together

----------------------------------------------------------------------------
(* JavaScript values and strings *)

Undefined == [t |-> "undefined"]
Null == [t |-> "null"]
Bool(b) == [t |-> "boolean", b |-> b]
Num(n) == [t |-> "number", n |-> n]
Str(s) == [t |-> "string", s |-> s]
Arr(items) == [t |-> "array", items |-> items]
Obj(props) == [t |-> "object", props |-> props]

\* White space as String.prototype.trim and JSON.parse both see it.
WhiteSpace == {" ", "\n"}

Min(S) == CHOOSE x \in S : \A y \in S : x <= y
Max(S) == CHOOSE x \in S : \A y \in S : x >= y

\* String.prototype.trim
Trim(s) ==
    LET inner == {k \in 1..Len(s) : s[k] \notin WhiteSpace}
    IN  IF inner = {} THEN <<>> ELSE SubSeq(s, Min(inner), Max(inner))

\* s has pat at position i.
MatchAt(s, i, pat) ==
    /\ i + Len(pat) - 1 <= Len(s)
    /\ SubSeq(s, i, i + Len(pat) - 1) = pat

\* s.replace(/<pat>\n?/g, '') from position i on: every leftmost
\* non-overlapping match of pat, with the newline after it when there is one,
\* is removed.
RECURSIVE ReplaceAll(_, _, _)
ReplaceAll(s, i, pat) ==
    LET matches == {m \in i..Len(s) : MatchAt(s, m, pat)}
    IN  IF matches = {} THEN SubSeq(s, i, Len(s))
        ELSE LET m == Min(matches)
                 j == m + Len(pat)
                 k == IF j <= Len(s) /\ s[j] = "\n" THEN j + 1 ELSE j
             IN  SubSeq(s, i, m - 1) \o ReplaceAll(s, k, pat)

\* Truthiness of a JavaScript value.
Truthy(v) ==
    CASE v.t = "undefined" -> FALSE
      [] v.t = "null" -> FALSE
      [] v.t = "boolean" -> v.b
      [] v.t = "number" -> v.n # 0
      [] v.t = "string" -> v.s # <<>>
      [] OTHER -> TRUE

\* message.includes(word), messages being sequences of words.
Includes(message, word) == \E i \in 1..Len(message) : message[i] = word

----------------------------------------------------------------------------
(* JSON.parse, for the JSON texts the provider is modelled to return:      *)
(* arrays, objects, strings without escape sequences, non-negative         *)
(* integers, null, true and false, with white space between tokens.        *)

Fail == [ok |-> FALSE, v |-> Undefined, i |-> 0]
Parsed(v, i) == [ok |-> TRUE, v |-> v, i |-> i]

DigitChars == <<"0", "1", "2", "3", "4", "5", "6", "7", "8", "9">>
IsDigit(c) == \E k \in 1..Len(DigitChars) : DigitChars[k] = c
DigitVal(c) == (CHOOSE k \in 1..Len(DigitChars) : DigitChars[k] = c) - 1

\* The first position from i on that holds no white space.
SkipWs(s, i) == Min({k \in i..Len(s) : s[k] \notin WhiteSpace} \cup {Len(s) + 1})

\* The index of the quote closing the string opened before j, 0 when there
\* is none or a raw newline comes first.
StringEnd(s, j) ==
    LET stops == {k \in j..Len(s) : s[k] \in {"\"", "\n"}}
    IN  IF stops = {} \/ s[Min(stops)] = "\n" THEN 0 ELSE Min(stops)

ParseString(s, i) ==
    LET e == StringEnd(s, i + 1)
    IN  IF e = 0 THEN Fail ELSE Parsed(Str(SubSeq(s, i + 1, e - 1)), e + 1)

RECURSIVE ParseDigits(_, _, _)
ParseDigits(s, i, n) ==
    IF i <= Len(s) /\ IsDigit(s[i])
    THEN ParseDigits(s, i + 1, 10 * n + DigitVal(s[i]))
    ELSE Parsed(Num(n), i)

ParseNumber(s, i) ==
    IF s[i] = "0" THEN Parsed(Num(0), i + 1) ELSE ParseDigits(s, i, 0)

RECURSIVE ParseValue(_, _)
RECURSIVE ParseElements(_, _, _)
RECURSIVE ParseMembers(_, _, _)

\* The elements of an array from position i, the values read so far in acc.
ParseElements(s, i, acc) ==
    LET r == ParseValue(s, SkipWs(s, i))
        j == SkipWs(s, r.i)
    IN  IF ~r.ok \/ j > Len(s) THEN Fail
        ELSE IF s[j] = "," THEN ParseElements(s, j + 1, Append(acc, r.v))
        ELSE IF s[j] = "]" THEN Parsed(Arr(Append(acc, r.v)), j + 1)
        ELSE Fail

\* The members of an object from position i, the members read so far in acc.
ParseMembers(s, i, acc) ==
    LET k == SkipWs(s, i)
    IN  IF k > Len(s) \/ s[k] # "\"" THEN Fail
        ELSE LET key == ParseString(s, k)
                 c == SkipWs(s, key.i)
             IN  IF ~key.ok \/ c > Len(s) \/ s[c] # ":" THEN Fail
                 ELSE LET r == ParseValue(s, SkipWs(s, c + 1))
                          j == SkipWs(s, r.i)
                          m == Append(acc, [k |-> key.v.s, v |-> r.v])
                      IN  IF ~r.ok \/ j > Len(s) THEN Fail
                          ELSE IF s[j] = "," THEN ParseMembers(s, j + 1, m)
                          ELSE IF s[j] = "}" THEN Parsed(Obj(m), j + 1)
                          ELSE Fail

ParseValue(s, i) ==
    IF i > Len(s) THEN Fail
    ELSE IF s[i] = "[" THEN
        LET j == SkipWs(s, i + 1)
        IN  IF j <= Len(s) /\ s[j] = "]" THEN Parsed(Arr(<<>>), j + 1)
            ELSE ParseElements(s, i + 1, <<>>)
    ELSE IF s[i] = "{" THEN
        LET j == SkipWs(s, i + 1)
        IN  IF j <= Len(s) /\ s[j] = "}" THEN Parsed(Obj(<<>>), j + 1)
            ELSE ParseMembers(s, i + 1, <<>>)
    ELSE IF s[i] = "\"" THEN ParseString(s, i)
    ELSE IF IsDigit(s[i]) THEN ParseNumber(s, i)
    ELSE IF MatchAt(s, i, <<"n", "u", "l", "l">>) THEN Parsed(Null, i + 4)
    ELSE IF MatchAt(s, i, <<"t", "r", "u", "e">>) THEN Parsed(Bool(TRUE), i + 4)
    ELSE IF MatchAt(s, i, <<"f", "a", "l", "s", "e">>) THEN Parsed(Bool(FALSE), i + 5)
    ELSE Fail

\* JSON.parse(s): ok is FALSE where JSON.parse throws a SyntaxError.
JSONParse(s) ==
    LET r == ParseValue(s, SkipWs(s, 1))
    IN  IF r.ok /\ SkipWs(s, r.i) > Len(s) THEN r ELSE Fail

\* obj[key] of a parsed object: the last member named key, else undefined.
RECURSIVE Lookup(_, _, _)
Lookup(props, n, key) ==
    IF n = 0 THEN Undefined
    ELSE IF props[n].k = key THEN props[n].v
    ELSE Lookup(props, n - 1, key)

\* card[key] for a value that is neither null nor undefined.
GetProp(card, key) ==
    IF card.t = "object" THEN Lookup(card.props, Len(card.props), key)
    ELSE Undefined

----------------------------------------------------------------------------
(* POST /api/generate-flashcards *)

NoResponse ==
    [status |-> 0, error |-> "", details |-> <<>>, flashcards |-> <<>>, count |-> 0]
ErrorResponse(status, error, details) ==
    [status |-> status, error |-> error, details |-> details,
     flashcards |-> <<>>, count |-> 0]

TextRequiredError == ErrorResponse(400, "Text is required", <<>>)
ApiKeyError ==
    ErrorResponse(500, "API key not configured. Please add GEMINI_API_KEY to your .env file", <<>>)
ParseFailure(message) ==
    ErrorResponse(500, "Failed to parse AI response. Please try again.", message)
GenerateFailure(message) ==
    ErrorResponse(500, "Failed to generate flashcards", message)

\* The messages of the errors the handler can meet.
SyntaxErrorMessage == <<"Unexpected", "token", "in", "JSON">>
FetchFailedMessage == <<"fetch", "failed">>
UndefinedReadMessage == <<"Cannot", "read", "properties", "of", "undefined">>
NullReadMessage == <<"Cannot", "read", "properties", "of", "null">>
InvalidFormatMessage == <<"Invalid", "flashcards", "format", "received", "from", "AI">>
NoValidCardsMessage == <<"No", "valid", "flashcards", "could", "be", "generated">>
GeminiErrorMessage(message) ==
    <<"Gemini", "API", "error:">> \o
        (IF Truthy(message) THEN message.s ELSE <<"Unknown", "error">>)

\* TextMissing without the trim.
TextMissingUntrimmed(text) == ~Truthy(text)

\* !text || text.trim().length === 0
TextMissing(text) == ~Truthy(text) \/ Len(Trim(text.s)) = 0

\* ApiKeyMissing that never reports a missing key.
ApiKeyMissingIgnored == FALSE

\* !API_KEY
ApiKeyMissing == ~API_KEY

\* The provider text trimmed, then the two replace calls.
\* The backquote character, which a TLA+ string cannot hold, is written "BQ".
Fence == <<"BQ", "BQ", "BQ">>
Sanitize(text) ==
    ReplaceAll(ReplaceAll(Trim(text), 1, Fence \o <<"j", "s", "o", "n">>), 1, Fence)

\* The callback of flashcards.filter, for a card that is not null.
IsValidCard(card) ==
    LET front == GetProp(card, <<"f", "r", "o", "n", "t">>)
        back == GetProp(card, <<"b", "a", "c", "k">>)
    IN  /\ Truthy(front)
        /\ Truthy(back)
        /\ front.t = "string"
        /\ back.t = "string"

\* The catch block.
GenerateCatch(message) ==
    IF Includes(message, "JSON") THEN ParseFailure(message) ELSE GenerateFailure(message)

\* The handler from the parse of the provider text to its response.
ParseAndValidate(text) ==
    LET flashcardsText == Sanitize(text)
        parsed == JSONParse(flashcardsText)
        flashcards == parsed.v
        validFlashcards == SelectSeq(flashcards.items, IsValidCard)
    IN  IF ~parsed.ok THEN GenerateCatch(SyntaxErrorMessage)
        ELSE IF flashcards.t # "array" \/ Len(flashcards.items) = 0
             THEN GenerateCatch(InvalidFormatMessage)
        ELSE IF \E i \in 1..Len(flashcards.items) : flashcards.items[i].t = "null"
             THEN GenerateCatch(NullReadMessage)
        ELSE IF Len(validFlashcards) = 0 THEN GenerateCatch(NoValidCardsMessage)
        ELSE [status |-> 200, error |-> "", details |-> <<>>,
              flashcards |-> validFlashcards, count |-> Len(validFlashcards)]

\* What the awaited fetch can produce: a rejection, or a response with its
\* ok flag and a body that is JSON or not; an error body carries
\* error.message or none, a success body candidates[0].content.parts[0].text
\* or none.
NoOutcome ==
    [kind |-> "none", json |-> FALSE, message |-> Undefined, text |-> Undefined]
Rejected ==
    [kind |-> "rejected", json |-> FALSE, message |-> Undefined, text |-> Undefined]
NotOk(json, message) ==
    [kind |-> "notOk", json |-> json, message |-> message, text |-> Undefined]
Ok(json, text) ==
    [kind |-> "ok", json |-> json, message |-> Undefined, text |-> text]

\* The handler from the return of fetch to its response.
AfterFetch(outcome) ==
    IF outcome.kind = "rejected" THEN GenerateCatch(FetchFailedMessage)
    ELSE IF ~outcome.json THEN GenerateCatch(SyntaxErrorMessage)
    ELSE IF outcome.kind = "notOk"
         THEN GenerateCatch(GeminiErrorMessage(outcome.message))
    ELSE IF outcome.text.t # "string" THEN GenerateCatch(UndefinedReadMessage)
    ELSE ParseAndValidate(outcome.text.s)

----------------------------------------------------------------------------
(* models/Deck.js: what Mongoose makes of the schema *)

\* CastString without the trim setter.
CastStringUntrimmed(v) == v

\* A String path with trim: true: the setter trims a string.
CastString(v) == IF v.t = "string" THEN Str(Trim(v.s)) ELSE v

\* required: true on a String path: a string that is not empty.
RequiredString(v) == v.t = "string" /\ v.s # <<>>

\* A card cast to cardSchema.
CastCard(card) == [front |-> CastString(card.front), back |-> CastString(card.back)]
CastCards(cards) == [i \in 1..Len(cards) |-> CastCard(cards[i])]

\* The validators of cardSchema on a cast card.
CardValid(card) == RequiredString(card.front) /\ RequiredString(card.back)

\* The validator of deckSchema.cards.
CardsValidator(cards) == Len(cards) > 0

\* The validators of deckSchema on a cast name and cast cards.
DeckValid(name, cards) ==
    /\ RequiredString(name)
    /\ CardsValidator(cards)
    /\ \A i \in 1..Len(cards) : CardValid(cards[i])

----------------------------------------------------------------------------
(* The inputs of the generate route *)

SeqsUpTo(S, n) == UNION {[1..k -> S] : k \in 0..n}

\* req.body.text: absent, or a string of blanks and letters.
RequestTexts == {Undefined} \cup {Str(s) : s \in SeqsUpTo({" ", "a"}, MaxTextLen)}

\* error.message of an error body.
ProviderMessages ==
    {Undefined, Str(<<"quota", "exceeded">>), Str(<<"Invalid", "JSON", "payload">>)}

Quoted(s) == <<"\"">> \o s \o <<"\"">>
CardText(front, back) ==
    <<"{">> \o Quoted(<<"f", "r", "o", "n", "t">>) \o <<":">> \o front \o <<",">>
        \o Quoted(<<"b", "a", "c", "k">>) \o <<":">> \o back \o <<"}">>
ArrayOf1(a) == <<"[">> \o a \o <<"]">>
ArrayOf2(a, b) == <<"[">> \o a \o <<",", " ">> \o b \o <<"]">>
ArrayOf3(a, b, c) == <<"[">> \o a \o <<",">> \o b \o <<",", "\n">> \o c \o <<"]">>

CardQA == CardText(Quoted(<<"Q">>), Quoted(<<"A">>))
CardAQ == CardText(Quoted(<<"A">>), Quoted(<<"Q">>))
CardEmpty == CardText(Quoted(<<>>), Quoted(<<>>))
CardBlankFront == CardText(Quoted(<<" ">>), Quoted(<<"A">>))
CardBlank == CardText(Quoted(<<" ">>), Quoted(<<" ", " ">>))
CardNoFront == <<"{">> \o Quoted(<<"b", "a", "c", "k">>) \o <<":">> \o Quoted(<<"A">>) \o <<"}">>
CardNumberFront == CardText(<<"7">>, Quoted(<<"A">>))
CardNullBack == CardText(Quoted(<<"Q">>), <<"n", "u", "l", "l">>)

\* JSON texts a provider can answer with.
JsonPayloads ==
    { ArrayOf1(CardQA),
      ArrayOf2(CardQA, CardAQ),
      ArrayOf3(CardAQ, CardEmpty, CardQA),
      ArrayOf3(CardQA, CardBlankFront, CardAQ),
      ArrayOf3(CardNoFront, CardQA, CardNumberFront),
      ArrayOf3(<<"1">>, Quoted(<<"Q">>), CardQA),
      ArrayOf2(<<"n", "u", "l", "l">>, CardQA),
      ArrayOf2(CardEmpty, CardNoFront),
      ArrayOf2(CardNullBack, CardNumberFront),
      ArrayOf1(CardBlank),
      ArrayOf2(CardBlank, CardEmpty),
      <<"[", "]">>,
      CardQA,
      <<"n", "u", "l", "l">>,
      <<"4", "2">>,
      Quoted(<<"Q">>) }

\* Texts that are not JSON.
BrokenPayloads ==
    { <<>>,
      <<"[", "{", "f", "r", "o", "n", "t", ":", "Q", "}", "]">>,
      <<"[">> \o CardQA,
      ArrayOf1(CardQA \o <<",">>),
      <<"H", "e", "r", "e", ":", " ">> \o ArrayOf1(CardQA) }

\* A payload in a Markdown code fence with a language tag (or none), the
\* fences on lines of their own or not.
Wrap(tag, payload) == Fence \o tag \o <<"\n">> \o payload \o <<"\n">> \o Fence
WrapTight(tag, payload) == Fence \o tag \o payload \o Fence
FenceTags == {<<>>, <<"j", "s", "o", "n">>, <<"j", "s">>, <<"J", "S", "O", "N">>}

\* candidates[0].content.parts[0].text
ProviderTexts ==
    LET payloads == JsonPayloads \cup BrokenPayloads
    IN  payloads
        \cup {Wrap(tag, p) : tag \in FenceTags, p \in payloads}
        \cup {WrapTight(tag, p) : tag \in FenceTags, p \in payloads}
        \cup {<<" ">> \o Wrap(tag, p) \o <<"\n">> : tag \in FenceTags, p \in JsonPayloads}

ProviderOutcomes ==
    {Rejected, NotOk(FALSE, Undefined), Ok(FALSE, Undefined), Ok(TRUE, Undefined)}
        \cup {NotOk(TRUE, m) : m \in ProviderMessages}
        \cup {Ok(TRUE, Str(t)) : t \in ProviderTexts}

----------------------------------------------------------------------------
(* The steps of the generate handler *)

\* The request arrives: the handler runs to its first response or to the
\* call of fetch.
Generate(text) ==
    /\ genPc \in {"idle", "done"}
    /\ genText' = text
    /\ genOutcome' = NoOutcome
    /\ IF TextMissing(text)
       THEN /\ genRes' = TextRequiredError
            /\ genPc' = "done"
            /\ UNCHANGED prompt
       ELSE IF ApiKeyMissing
       THEN /\ genRes' = ApiKeyError
            /\ genPc' = "done"
            /\ UNCHANGED prompt
       ELSE /\ genRes' = NoResponse
            /\ genPc' = "fetching"
            /\ prompt' = text
    /\ UNCHANGED <<API_KEY, deckVars, uiVars>>

\* fetch settles: the handler runs from there to its response.
GenerateResume(outcome) ==
    /\ genPc = "fetching"
    /\ genOutcome' = outcome
    /\ genRes' = AfterFetch(outcome)
    /\ genPc' = "done"
    /\ UNCHANGED <<API_KEY, genText, prompt, deckVars, uiVars>>

GenInit ==
    /\ API_KEY \in BOOLEAN
    /\ genPc = "idle"
    /\ genText = Undefined
    /\ genOutcome = NoOutcome
    /\ genRes = NoResponse
    /\ prompt = Undefined

GenNext ==
    \/ \E text \in RequestTexts : Generate(text)
    \/ \E outcome \in ProviderOutcomes : GenerateResume(outcome)

----------------------------------------------------------------------------
(* The inputs of the deck routes *)

Card(front, back) == [front |-> front, back |-> back]
CardAB == Card(Str(<<"a">>), Str(<<"b">>))
CardBA == Card(Str(<<"b">>), Str(<<"a">>))
CardPadded == Card(Str(<<" ", "b">>), Str(<<"a", " ">>))
CardBlankSide == Card(Str(<<" ">>), Str(<<"a">>))
CardNoBack == Card(Str(<<"a">>), Undefined)

Body(name, cards) == [name |-> name, cards |-> cards]

\* Request bodies with a name string and a cards array.
DeckBodies ==
    { Body(Str(<<"a">>), Arr(<<CardAB>>)),
      Body(Str(<<" ", "b">>), Arr(<<CardPadded, CardAB>>)),
      Body(Str(<<>>), Arr(<<CardAB>>)),
      Body(Str(<<" ">>), Arr(<<CardBA>>)),
      Body(Str(<<"a">>), Arr(<<>>)),
      Body(Str(<<"b">>), Arr(<<CardAB, CardBlankSide>>)),
      Body(Str(<<"a">>), Arr(<<CardNoBack>>)) }

\* Request bodies of POST /api/decks: those, and bodies short of a field.
CreateBodies ==
    DeckBodies \cup
        { Body(Undefined, Arr(<<CardAB>>)), Body(Str(<<"a">>), Undefined) }

\* The request bodies of the clients whose requests are under way together:
\* two valid bodies that differ in the name and in the cards, and one that
\* the validators refuse.
ConcurrentBodies ==
    { Body(Str(<<"a">>), Arr(<<CardAB>>)),
      Body(Str(<<" ", "b">>), Arr(<<CardPadded, CardAB>>)),
      Body(Str(<<"b">>), Arr(<<CardAB, CardBlankSide>>)) }
ConcurrentCreateBodies == { Body(Str(<<"a">>), Arr(<<CardAB>>)) }

\* The clients whose update requests can be under way together.
Clients == {"c1", "c2"}

\* The ids a request can name: those handed out, and 0 for an id that never
\* was.
KnownIds == 0..(nextId - 1)

----------------------------------------------------------------------------
(* The deck routes *)

NoDeck == [id |-> 0, name |-> Undefined, cards |-> <<>>, createdAt |-> 0, updatedAt |-> 0]
NoBody == Body(Undefined, Undefined)
NoUpdate == [id |-> 0, name |-> Undefined, cards |-> <<>>, updatedAt |-> 0, body |-> NoBody]

Reply(op, id, status, error, deck, list) ==
    [op |-> op, id |-> id, status |-> status, error |-> error,
     deck |-> deck, list |-> list]

\* Deck.findById(id): the stored document, or none.
FindById(id) == IF id \in DOMAIN decks THEN decks[id] ELSE NoDeck

\* GET /api/decks/:id
GetDeckReply(id) ==
    LET deck == FindById(id)
    IN  IF deck # NoDeck
        THEN Reply("get", id, 200, "", deck, <<>>)
        ELSE Reply("get", 0, 404, "Deck not found", NoDeck, <<>>)

GetDeck(id) ==
    /\ res' = GetDeckReply(id)
    /\ UNCHANGED <<decks, nextId, now, pending, genVars, uiVars>>

\* SortedByCreatedAt with the sort turned round: an earlier createdAt first.
SortedByCreatedAtAscending(list) ==
    \A i \in 1..Len(list), j \in 1..Len(list) :
        i < j => list[i].createdAt <= list[j].createdAt

\* Deck.find().sort({ createdAt: -1 }): the stored documents, a later
\* createdAt before an earlier one; documents of one createdAt in any order.
SortedByCreatedAt(list) ==
    \A i \in 1..Len(list), j \in 1..Len(list) :
        i < j => list[i].createdAt >= list[j].createdAt
FindSorted ==
    { list \in [1..Cardinality(DOMAIN decks) -> {decks[i] : i \in DOMAIN decks}] :
        /\ \A i \in DOMAIN decks : \E k \in 1..Len(list) : list[k] = decks[i]
        /\ SortedByCreatedAt(list) }

\* The handler of GET /api/decks.
GetDecksRequest ==
    /\ \E list \in FindSorted :
          res' = Reply("list", 0, 200, "", NoDeck, list)
    /\ UNCHANGED <<decks, nextId, now>>

\* GET /api/decks
GetDecks == GetDecksRequest /\ UNCHANGED <<pending, genVars, uiVars>>

\* new Deck({ name, cards }): the document with its _id and its defaults.
NewDeck(id, name, cards, time) ==
    [id |-> id, name |-> CastString(name), cards |-> CastCards(cards),
     createdAt |-> time, updatedAt |-> time]

\* The handler of POST /api/decks. The clock may tick between the
\* construction of the document and the pre('save') hook.
CreateDeckRequest(body) ==
    /\ IF ~Truthy(body.name) \/ ~Truthy(body.cards) \/ body.cards.t # "array"
       THEN /\ res' = Reply("create", 0, 400,
                            "Name and cards array are required", NoDeck, <<>>)
            /\ UNCHANGED <<decks, nextId, now>>
       ELSE IF Len(body.cards.items) = 0
       THEN /\ res' = Reply("create", 0, 400,
                            "Deck must contain at least one card", NoDeck, <<>>)
            /\ UNCHANGED <<decks, nextId, now>>
       ELSE LET deck == NewDeck(nextId, body.name, body.cards.items, now)
            IN  IF ~DeckValid(deck.name, deck.cards)
                THEN /\ res' = Reply("create", 0, 500,
                                     "Failed to create deck", NoDeck, <<>>)
                     /\ UNCHANGED <<decks, nextId, now>>
                ELSE /\ nextId <= MaxDecks
                     /\ \E time \in {now, now + 1} :
                          /\ time <= MaxTime
                          /\ now' = time
                          /\ LET saved == [deck EXCEPT !.updatedAt = time]
                             IN  /\ decks' = decks @@ (nextId :> saved)
                                 /\ res' = Reply("create", nextId, 201, "",
                                                 saved, <<>>)
                     /\ nextId' = nextId + 1

\* POST /api/decks
CreateDeck(body) == CreateDeckRequest(body) /\ UNCHANGED <<pending, genVars, uiVars>>

\* The update document of findByIdAndUpdate, cast to deckSchema.
CastUpdate(id, body, time) ==
    [id |-> id, name |-> CastString(body.name), cards |-> CastCards(body.cards.items),
     updatedAt |-> time, body |-> body]

\* UpdateValid with runValidators left out: every update document passes.
UpdateValidSkipped(update) == TRUE

\* runValidators: the validators of deckSchema on the update document.
UpdateValid(update) == DeckValid(update.name, update.cards)

\* ApplyUpdate writing its timestamp to createdAt as well.
ApplyUpdateResettingCreatedAt(deck, update) ==
    [deck EXCEPT !.name = update.name, !.cards = update.cards,
                 !.createdAt = update.updatedAt, !.updatedAt = update.updatedAt]

\* ApplyUpdate writing the name and the timestamp and leaving the cards.
ApplyUpdateKeepingCards(deck, update) ==
    [deck EXCEPT !.name = update.name, !.updatedAt = update.updatedAt]

\* The $set of the update on the stored document.
ApplyUpdate(deck, update) ==
    [deck EXCEPT !.name = update.name, !.cards = update.cards,
                 !.updatedAt = update.updatedAt]

\* What the handler answers when the update document is invalid.
UpdateRejected ==
    /\ res' = Reply("update", 0, 500, "Failed to update deck", NoDeck, <<>>)
    /\ UNCHANGED decks

\* findOneAndUpdate, one atomic operation of the store, and the answer of the
\* handler to its result.
WriteUpdate(update) ==
    IF update.id \in DOMAIN decks
    THEN LET deck == ApplyUpdate(decks[update.id], update)
         IN  /\ decks' = [decks EXCEPT ![update.id] = deck]
             /\ res' = Reply("update", update.id, 200, "", deck, <<>>)
    ELSE /\ res' = Reply("update", 0, 404, "Deck not found", NoDeck, <<>>)
         /\ UNCHANGED decks

\* PUT /api/decks/:id, no other request running meanwhile: the update
\* document is built with Date.now(), cast and validated, then written.
UpdateDeck(id, body) ==
    /\ LET update == CastUpdate(id, body, now)
       IN  IF ~UpdateValid(update) THEN UpdateRejected ELSE WriteUpdate(update)
    /\ UNCHANGED <<nextId, now, pending, genVars, uiVars>>

\* PUT /api/decks/:id up to the write, for a client whose request runs along
\* with others: the write is awaited.
UpdateDeckStart(c, id, body) ==
    /\ pending[c] = NoUpdate
    /\ LET update == CastUpdate(id, body, now)
       IN  IF ~UpdateValid(update)
           THEN UpdateRejected /\ UNCHANGED pending
           ELSE /\ pending' = [pending EXCEPT ![c] = update]
                /\ UNCHANGED <<decks, res>>
    /\ UNCHANGED <<nextId, now, genVars, uiVars>>

\* PUT /api/decks/:id from the write on.
UpdateDeckCommit(c) ==
    /\ pending[c] # NoUpdate
    /\ WriteUpdate(pending[c])
    /\ pending' = [pending EXCEPT ![c] = NoUpdate]
    /\ UNCHANGED <<nextId, now, genVars, uiVars>>

\* DeleteDeck answering as it does and leaving the document in the store.
DeleteDeckKeepingDocument(id) ==
    /\ IF id \in DOMAIN decks
       THEN res' = Reply("delete", 0, 200, "", NoDeck, <<>>)
       ELSE res' = Reply("delete", 0, 404, "Deck not found", NoDeck, <<>>)
    /\ UNCHANGED <<decks, nextId, now, pending, genVars, uiVars>>

\* DELETE /api/decks/:id
DeleteDeck(id) ==
    /\ IF id \in DOMAIN decks
       THEN /\ decks' = [i \in DOMAIN decks \ {id} |-> decks[i]]
            /\ res' = Reply("delete", 0, 200, "", NoDeck, <<>>)
       ELSE /\ res' = Reply("delete", 0, 404, "Deck not found", NoDeck, <<>>)
            /\ UNCHANGED decks
    /\ UNCHANGED <<nextId, now, pending, genVars, uiVars>>

\* A millisecond passes.
Tick ==
    /\ now < MaxTime
    /\ now' = now + 1
    /\ UNCHANGED <<decks, nextId, pending, res, genVars, uiVars>>

DeckInit ==
    /\ decks = <<>>
    /\ nextId = 1
    /\ now = 0
    /\ pending = [c \in Clients |-> NoUpdate]
    /\ res = Reply("none", 0, 0, "", NoDeck, <<>>)

----------------------------------------------------------------------------
(* The React App: generating a deck and saving it (App, services/api.js) *)

\* The flashcards a generate response can carry: valid cards, and cards with
\* a blank side, which the filter of the generate route lets through.
GeneratedCards == { <<CardAB>>, <<CardAB, CardBlankSide>> }

\* What api.generateFlashcards(inputText) can come back with.
GenerateReplies ==
    { [ok |-> TRUE, flashcards |-> cards, error |-> ""] : cards \in GeneratedCards }
        \cup { [ok |-> TRUE, flashcards |-> <<>>, error |-> ""],
               [ok |-> FALSE, flashcards |-> <<>>, error |-> "Failed to generate flashcards"] }

\* What the user types into the deck name input.
DeckNames == { Str(<<"a">>), Str(<<" ">>) }

\* The ways to ask for a save: the Save button and the Enter key in the
\* deck name input.
SaveTriggers == { "click", "Enter" }

\* The deck generateFlashcards puts into currentDeck: it has no _id.
GeneratedDeck(cards) == [name |-> Str(<<>>), cards |-> cards, createdAt |-> now]

\* currentDeck._id
HasId(deck) == "id" \in DOMAIN deck

\* The "Save This Deck" panel is rendered: the study view of a deck without
\* _id.
SavePanelShown == view = "study" /\ currentDeck # Null /\ ~HasId(currentDeck)

\* A call of saveDeckHandler under way: where it is, the body of its
\* POST /api/decks, and the response it received last.
SaveCall(pc, body, reply) == [pc |-> pc, body |-> body, reply |-> reply]
NoReply == Reply("none", 0, 0, "", NoDeck, <<>>)

RemoveAt(calls, k) ==
    [i \in 1..(Len(calls) - 1) |-> IF i < k THEN calls[i] ELSE calls[i + 1]]

\* generateFlashcards up to the awaited api.generateFlashcards: the button is
\* disabled while loading.
GenerateFlashcards ==
    /\ view = "home"
    /\ ~loading
    /\ ~generating
    /\ loading' = TRUE
    /\ errorText' = ""
    /\ generating' = TRUE
    /\ UNCHANGED <<view, currentDeck, savedDecks, deckName, saves, genVars, deckVars>>

\* generateFlashcards from the response on.
GenerateFlashcardsResume(data) ==
    /\ generating
    /\ generating' = FALSE
    /\ loading' = FALSE
    /\ IF data.ok /\ Len(data.flashcards) > 0
       THEN /\ currentDeck' = GeneratedDeck(data.flashcards)
            /\ view' = "study"
            /\ UNCHANGED errorText
       ELSE /\ errorText' = IF data.ok
                            THEN "No flashcards generated. Try different text."
                            ELSE data.error
            /\ UNCHANGED <<currentDeck, view>>
    /\ UNCHANGED <<savedDecks, deckName, saves, genVars, deckVars>>

\* onChange of the deck name input.
SetDeckName(name) ==
    /\ SavePanelShown
    /\ deckName # name
    /\ deckName' = name
    /\ UNCHANGED <<view, loading, currentDeck, savedDecks, errorText, generating,
                   saves, genVars, deckVars>>

\* "Back to Home"
BackToHome ==
    /\ view = "study"
    /\ view' = "home"
    /\ UNCHANGED <<loading, currentDeck, savedDecks, deckName, errorText, generating,
                   saves, genVars, deckVars>>

\* loadDeck(deck): the Study button of a saved deck.
LoadDeck(k) ==
    /\ view = "home"
    /\ currentDeck' = savedDecks[k]
    /\ view' = "study"
    /\ UNCHANGED <<loading, savedDecks, deckName, errorText, generating, saves,
                   genVars, deckVars>>

\* saveDeckHandler up to the awaited api.saveDeck, called by the Save button,
\* which is disabled while loading, or by the Enter key in the name input.
SaveDeckHandler(trigger) ==
    /\ SavePanelShown
    /\ trigger = "click" => ~loading
    /\ IF currentDeck = Null \/ Len(Trim(deckName.s)) = 0
       THEN /\ errorText' = "Please enter a deck name"
            /\ UNCHANGED <<loading, saves>>
       ELSE /\ Len(saves) < MaxSaves
            /\ loading' = TRUE
            /\ errorText' = ""
            /\ saves' = Append(saves,
                   SaveCall("saveDeck", Body(deckName, Arr(currentDeck.cards)), NoReply))
    /\ UNCHANGED <<view, currentDeck, savedDecks, deckName, generating, genVars, deckVars>>

\* The server handles the POST /api/decks of call k.
SaveDeckServe(k) ==
    /\ saves[k].pc = "saveDeck"
    /\ CreateDeckRequest(saves[k].body)
    /\ saves' = [saves EXCEPT ![k] = SaveCall("saved", saves[k].body, res')]
    /\ UNCHANGED <<view, loading, currentDeck, savedDecks, deckName, errorText,
                   generating, pending, genVars>>

\* saveDeckHandler from the response of api.saveDeck on: up to the awaited
\* loadDecks(), or through catch and finally.
SaveDeckResume(k) ==
    /\ saves[k].pc = "saved"
    /\ IF saves[k].reply.status = 201
       THEN /\ currentDeck' = saves[k].reply.deck
            /\ deckName' = Str(<<>>)
            /\ saves' = [saves EXCEPT ![k] = SaveCall("loadDecks", saves[k].body, NoReply)]
            /\ UNCHANGED <<errorText, loading>>
       ELSE /\ errorText' = saves[k].reply.error
            /\ loading' = FALSE
            /\ saves' = RemoveAt(saves, k)
            /\ UNCHANGED <<currentDeck, deckName>>
    /\ UNCHANGED <<view, savedDecks, generating, genVars, deckVars>>

\* The server handles the GET /api/decks of the loadDecks() of call k.
LoadDecksServe(k) ==
    /\ saves[k].pc = "loadDecks"
    /\ GetDecksRequest
    /\ saves' = [saves EXCEPT ![k] = SaveCall("loaded", saves[k].body, res')]
    /\ UNCHANGED <<view, loading, currentDeck, savedDecks, deckName, errorText,
                   generating, pending, genVars>>

\* loadDecks() from its response on, then the rest of saveDeckHandler: the
\* alert and finally.
LoadDecksResume(k) ==
    /\ saves[k].pc = "loaded"
    /\ savedDecks' = saves[k].reply.list
    /\ loading' = FALSE
    /\ saves' = RemoveAt(saves, k)
    /\ UNCHANGED <<view, currentDeck, deckName, errorText, generating, genVars, deckVars>>

UIInit ==
    /\ view = "home"
    /\ loading = FALSE
    /\ currentDeck = Null
    /\ savedDecks = <<>>
    /\ deckName = Str(<<>>)
    /\ errorText = ""
    /\ generating = FALSE
    /\ saves = <<>>

UINext ==
    \/ GenerateFlashcards
    \/ \E data \in GenerateReplies : GenerateFlashcardsResume(data)
    \/ \E name \in DeckNames : SetDeckName(name)
    \/ BackToHome
    \/ \E k \in 1..Len(savedDecks) : LoadDeck(k)
    \/ \E trigger \in SaveTriggers : SaveDeckHandler(trigger)
    \/ \E k \in 1..Len(saves) : SaveDeckServe(k)
    \/ \E k \in 1..Len(saves) : SaveDeckResume(k)
    \/ \E k \in 1..Len(saves) : LoadDecksServe(k)
    \/ \E k \in 1..Len(saves) : LoadDecksResume(k)

----------------------------------------------------------------------------
(* Specifications *)

Init == GenInit /\ DeckInit /\ UIInit

\* The deck routes do not read the API key.
InitDecks == Init /\ API_KEY

DeckNext ==
    \/ \E body \in CreateBodies : CreateDeck(body)
    \/ \E id \in KnownIds : GetDeck(id)
    \/ GetDecks
    \/ \E id \in KnownIds, body \in DeckBodies : UpdateDeck(id, body)
    \/ \E id \in KnownIds : DeleteDeck(id)
    \/ Tick

\* The generate route alone.
SpecGen == Init /\ [][GenNext]_vars

\* The deck routes alone, each request handled before the next arrives.
Spec == InitDecks /\ [][DeckNext]_vars

\* The deck routes with the update requests of two clients under way
\* together: each awaits its write while the other runs. The clients work on
\* one deck at a time: a deck is created when none is stored.
ConcurrentNext ==
    \/ \E body \in ConcurrentCreateBodies : decks = <<>> /\ CreateDeck(body)
    \/ \E c \in Clients, id \in KnownIds, body \in ConcurrentBodies :
          UpdateDeckStart(c, id, body)
    \/ \E c \in Clients : UpdateDeckCommit(c)
    \/ \E id \in KnownIds : DeleteDeck(id)
    \/ Tick

SpecConcurrent == InitDecks /\ [][ConcurrentNext]_vars

\* The App of one browser with the server behind it.
SpecUI == InitDecks /\ [][UINext]_vars

----------------------------------------------------------------------------
(* Properties of the generate route *)

\* A string that is empty or holds white space only.
IsBlankText(text) ==
    text.t = "string" /\ \A i \in 1..Len(text.s) : text.s[i] \in WhiteSpace
\* A string with a character that is not white space.
IsNonBlankText(text) ==
    text.t = "string" /\ \E i \in 1..Len(text.s) : text.s[i] \notin WhiteSpace

\* The generate request has a provider text, and it parses to an array.
HasCandidates ==
    /\ genOutcome.kind = "ok"
    /\ genOutcome.json
    /\ genOutcome.text.t = "string"
    /\ JSONParse(Sanitize(genOutcome.text.s)).ok
    /\ JSONParse(Sanitize(genOutcome.text.s)).v.t = "array"
Candidates == JSONParse(Sanitize(genOutcome.text.s)).v.items

\* A field that is a string and not empty after trimming.
IsFilledString(v) == v.t = "string" /\ Trim(v.s) # <<>>
\* A field that is absent, or a string that is empty after trimming.
IsMissingOrBlank(v) == v.t = "undefined" \/ (v.t = "string" /\ Trim(v.s) = <<>>)
FrontOf(card) == GetProp(card, <<"f", "r", "o", "n", "t">>)
BackOf(card) == GetProp(card, <<"b", "a", "c", "k">>)
\* A candidate the specification's CardValidator keeps.
IsWellFormed(card) ==
    card.t = "object" /\ IsFilledString(FrontOf(card)) /\ IsFilledString(BackOf(card))

IsParseFailure(r) == r.error = "Failed to parse AI response. Please try again."
IsEmptyResult(r) == r = GenerateFailure(NoValidCardsMessage)

\* C1: a generate request whose text is empty or only white space is answered
\* 400 "Text is required" without a call of the provider, with the API key
\* configured or not; no blank text is ever sent to the provider.
C1_BlankTextRejected ==
    /\ (genPc # "idle" /\ IsBlankText(genText)) =>
            /\ genPc = "done"
            /\ genRes = TextRequiredError
            /\ genOutcome = NoOutcome
    /\ ~IsBlankText(prompt)

\* A white-space-only text was answered 400 although the key is configured.
C1_Witness ==
    /\ API_KEY
    /\ genPc = "done"
    /\ genText = Str(<<" ", " ">>)
    /\ genRes.status = 400
    /\ prompt # Undefined

\* C2: the flashcards of a successful generate request are exactly the
\* candidates that are objects with string front and back, both non-empty
\* after trimming, in their order, count is their number, and a request with
\* such a candidate succeeds whatever the other candidates are.
C2_FilterKeepsWellFormed ==
    (genPc = "done" /\ HasCandidates) =>
        LET kept == SelectSeq(Candidates, IsWellFormed)
        IN  /\ genRes.status = 200 =>
                /\ genRes.flashcards = kept
                /\ genRes.count = Len(genRes.flashcards)
            /\ kept # <<>> => genRes.status = 200

\* C3: a provider text that is a JSON payload between code fences, with any
\* language tag or none, is answered as the payload alone is.
C3_FenceTransparent ==
    (genPc = "done" /\ genOutcome.kind = "ok" /\ genOutcome.json
        /\ genOutcome.text.t = "string") =>
        \A tag \in FenceTags, p \in JsonPayloads :
            genOutcome.text.s = Wrap(tag, p) => genRes = ParseAndValidate(p)

\* C4: a generate request that reached the provider is answered with the
\* parse failure exactly when the provider text, sanitized, is not JSON or is
\* not an array, and then without flashcards.
C4_ParseFailureExact ==
    (genPc = "done" /\ genOutcome # NoOutcome) =>
        /\ IsParseFailure(genRes) <=>
                /\ genOutcome.kind = "ok"
                /\ genOutcome.json
                /\ genOutcome.text.t = "string"
                /\ ~HasCandidates
        /\ IsParseFailure(genRes) => genRes.flashcards = <<>>

\* C5: a provider text that parses to an array of objects each with a missing
\* or blank front or back is answered with the empty-result failure, which is
\* not the parse failure, and without flashcards.
C5_AllBlankIsEmptyResult ==
    (genPc = "done" /\ HasCandidates /\ Candidates # <<>>
        /\ \A i \in 1..Len(Candidates) :
              /\ Candidates[i].t = "object"
              /\ \/ IsMissingOrBlank(FrontOf(Candidates[i]))
                 \/ IsMissingOrBlank(BackOf(Candidates[i]))) =>
        /\ IsEmptyResult(genRes)
        /\ ~IsParseFailure(genRes)
        /\ genRes.flashcards = <<>>

\* C6: without an API key a generate request with a non-blank text is
\* answered 500 "API key not configured" in the step that receives it, and
\* the provider is never called.
C6_NoKeyNoCall ==
    ~API_KEY =>
        /\ prompt = Undefined
        /\ (genPc # "idle" /\ IsNonBlankText(genText)) =>
                /\ genPc = "done"
                /\ genRes = ApiKeyError
                /\ genOutcome = NoOutcome

\* A non-blank text was answered with the configuration error.
C6_Witness ==
    /\ ~API_KEY
    /\ genPc = "done"
    /\ genText = Str(<<" ", "a">>)
    /\ genRes.status = 500
    /\ genRes = ApiKeyError

----------------------------------------------------------------------------
(* Properties of the deck routes *)

\* A name that is absent or the empty string.
IsEmptyName(name) == name.t = "undefined" \/ name = Str(<<>>)
\* A card with a front or back that is absent or empty after trimming.
IsInvalidCard(card) == IsMissingOrBlank(card.front) \/ IsMissingOrBlank(card.back)
\* A body whose name is empty, whose cards are none, or with an invalid card.
IsInvalidBody(body) ==
    \/ IsEmptyName(body.name)
    \/ /\ body.cards.t = "array"
       /\ \/ body.cards.items = <<>>
          \/ \E i \in 1..Len(body.cards.items) : IsInvalidCard(body.cards.items[i])
\* A body with a valid name and a non-empty sequence of valid cards.
IsValidBody(body) ==
    /\ IsFilledString(body.name)
    /\ body.cards.t = "array"
    /\ body.cards.items # <<>>
    /\ \A i \in 1..Len(body.cards.items) :
          /\ IsFilledString(body.cards.items[i].front)
          /\ IsFilledString(body.cards.items[i].back)

\* The reply of GET /api/decks/:id carries the name and the cards of the body
\* as they were sent.
ReturnsAsSent(got, body) ==
    /\ got.status = 200
    /\ got.deck.name = body.name
    /\ Len(got.deck.cards) = Len(body.cards.items)
    /\ \A i \in 1..Len(body.cards.items) :
          /\ got.deck.cards[i].front = body.cards.items[i].front
          /\ got.deck.cards[i].back = body.cards.items[i].back

\* The reply of GET /api/decks/:id carries the name and the cards of the body
\* with the white space around the name and around each front and back
\* removed.
ReturnsTrimmed(got, body) ==
    /\ got.status = 200
    /\ got.deck.name = Str(Trim(body.name.s))
    /\ Len(got.deck.cards) = Len(body.cards.items)
    /\ \A i \in 1..Len(body.cards.items) :
          /\ got.deck.cards[i].front = Str(Trim(body.cards.items[i].front.s))
          /\ got.deck.cards[i].back = Str(Trim(body.cards.items[i].back.s))

\* C7, as claimed: after create(name, cards) with a valid name and valid
\* cards, get(id) with the returned id returns the same name and the same
\* cards in the same order.
C7_RoundTripAsSent ==
    [][\A body \in CreateBodies :
          (IsValidBody(body) /\ CreateDeck(body)) =>
              /\ res'.status = 201
              /\ ReturnsAsSent(GetDeckReply(res.id)', body)]_vars

\* C7, amended: after create(name, cards) with a valid name and valid cards,
\* get(id) with the returned id returns the name trimmed and the cards in the
\* same order, each front and back trimmed.
C7_RoundTripTrimmed ==
    [][\A body \in CreateBodies :
          (IsValidBody(body) /\ CreateDeck(body)) =>
              /\ res'.status = 201
              /\ res'.id \in DOMAIN decks'
              /\ ReturnsTrimmed(GetDeckReply(res.id)', body)]_vars

\* A deck was created from a body with padded name and cards, and is stored
\* under the id returned.
C7_Witness ==
    /\ res.op = "create"
    /\ res.status = 201
    /\ res.deck.name = Str(<<"b">>)
    /\ Len(res.deck.cards) = 2
    /\ res.deck.cards[1] = CardBA
    /\ GetDeckReply(res.id).deck = res.deck

\* C8: create with an empty name, no cards or an invalid card is answered
\* 400, and the stored decks are unchanged.
C8_CreateInvalidIs400 ==
    [][\A body \in CreateBodies :
          (IsInvalidBody(body) /\ CreateDeck(body)) =>
              /\ res'.status = 400
              /\ decks' = decks]_vars

\* C9, as claimed: a successful update keeps id and createdAt, sets
\* updatedAt to a later value than before, and get(id) then returns the new
\* name and cards.
C9_UpdateAdvances ==
    [][\A id \in KnownIds, body \in DeckBodies :
          (UpdateDeck(id, body) /\ res'.status = 200) =>
              /\ decks'[id].id = decks[id].id
              /\ decks'[id].createdAt = decks[id].createdAt
              /\ decks'[id].updatedAt > decks[id].updatedAt
              /\ ReturnsAsSent(GetDeckReply(id)', body)]_vars

\* C9, amended: a successful update keeps id and createdAt, sets updatedAt
\* to the clock value read for the request, and get(id) then returns the new
\* name and cards, trimmed.
C9_UpdateStampsNow ==
    [][\A id \in KnownIds, body \in DeckBodies :
          (UpdateDeck(id, body) /\ res'.status = 200) =>
              /\ id \in DOMAIN decks
              /\ DOMAIN decks' = DOMAIN decks
              /\ decks'[id].id = decks[id].id
              /\ decks'[id].createdAt = decks[id].createdAt
              /\ decks'[id].updatedAt = now
              /\ ReturnsTrimmed(GetDeckReply(id)', body)]_vars

\* A deck was updated at a later time than it was created, from the body with
\* padded name and cards.
C9_Witness ==
    /\ res.op = "update"
    /\ res.status = 200
    /\ res.id \in DOMAIN decks
    /\ decks[res.id] = res.deck
    /\ res.deck.name = Str(<<"b">>)
    /\ res.deck.updatedAt > res.deck.createdAt

\* C10: update of a stored deck with an empty name, no cards or an invalid
\* card is answered 400, and the stored decks are unchanged.
C10_UpdateInvalidIs400 ==
    [][\A id \in KnownIds, body \in DeckBodies :
          (id \in DOMAIN decks /\ IsInvalidBody(body) /\ UpdateDeck(id, body)) =>
              /\ res'.status = 400
              /\ decks' = decks]_vars

\* C11: a successful delete(id) removes the deck of that id and leaves every
\* other stored deck as it was; from then on the id stays out of the store,
\* every get(id) is answered 404 and no list() result holds a deck of that id.
C11_DeletedStaysGone ==
    [][\A id \in KnownIds :
          /\ (id \in DOMAIN decks /\ DeleteDeck(id)) =>
                /\ res'.status = 200
                /\ DOMAIN decks' = DOMAIN decks \ {id}
                /\ \A other \in DOMAIN decks' : decks'[other] = decks[other]
          /\ (id # 0 /\ id \notin DOMAIN decks) =>
                /\ id \notin DOMAIN decks'
                /\ GetDeck(id) => res'.status = 404
                /\ GetDecks =>
                      \A k \in 1..Len(res'.list) : res'.list[k].id # id]_vars

\* Deck 1 was deleted, deck 2 is stored, and a list() after the delete has
\* returned deck 2 alone.
C11_Witness ==
    /\ nextId = 3
    /\ DOMAIN decks = {2}
    /\ res.op = "list"
    /\ Len(res.list) = 1
    /\ res.list[1] = decks[2]

\* C12: every stored deck has a non-empty name and at least one card, and
\* every card of it has a front and a back that are not empty after trimming.
C12_StoredDecksValid ==
    \A id \in DOMAIN decks :
        /\ decks[id].name.t = "string"
        /\ Len(decks[id].name.s) > 0
        /\ Len(decks[id].cards) >= 1
        /\ \A k \in 1..Len(decks[id].cards) :
              /\ IsFilledString(decks[id].cards[k].front)
              /\ IsFilledString(decks[id].cards[k].back)

\* An update was refused and the deck it named is stored, as an earlier
\* update left it.
C12_Witness ==
    /\ res.op = "update"
    /\ res.status = 500
    /\ 1 \in DOMAIN decks
    /\ decks[1].updatedAt > decks[1].createdAt
    /\ Len(decks[1].cards) = 2

\* C13: list() answers 200 with every stored deck once and nothing else, a
\* deck created later before a deck created earlier; with no deck stored the
\* answer is the empty list.
C13_ListIsStoreSorted ==
    [][GetDecks =>
          /\ res'.status = 200
          /\ Len(res'.list) = Cardinality(DOMAIN decks)
          /\ \A id \in DOMAIN decks :
                \E k \in 1..Len(res'.list) : res'.list[k] = decks[id]
          /\ \A i \in 1..Len(res'.list), j \in 1..Len(res'.list) :
                i < j => res'.list[i].createdAt >= res'.list[j].createdAt
          /\ (decks = <<>> => res'.list = <<>>)]_vars

\* A list() has returned two decks, the one created later first.
C13_Witness ==
    /\ res.op = "list"
    /\ res.status = 200
    /\ Len(res.list) = 2
    /\ res.list[1].createdAt > res.list[2].createdAt
    /\ res.list[1].id = 2

\* The name and the cards of the deck are those of one request body, cast.
CarriesWholeBody(deck) ==
    \E body \in ConcurrentBodies \cup ConcurrentCreateBodies :
        /\ deck.name = CastString(body.name)
        /\ deck.cards = CastCards(body.cards.items)

\* C14: when the write of a valid update request on a stored deck is carried
\* out, whatever other update requests are under way, the request succeeds
\* and the stored deck carries the name and the cards of that request; at
\* every moment a stored deck carries the name and the cards of one single
\* request, never the name of one and the cards of another.
C14_LastWriterWins ==
    [][/\ \A c \in Clients :
             (/\ pending[c] # NoUpdate
              /\ pending[c].id \in DOMAIN decks
              /\ UpdateDeckCommit(c)) =>
                 /\ res'.status = 200
                 /\ decks'[pending[c].id].name = pending[c].name
                 /\ decks'[pending[c].id].cards = pending[c].cards
                 /\ \A other \in Clients \ {c} : pending'[other] = pending[other]
       /\ \A id \in DOMAIN decks' : CarriesWholeBody(decks'[id])]_vars

\* The update of c1 is awaiting its write on deck 1 while the update of c2,
\* begun later and with another name and other cards, has been written.
C14_Witness ==
    /\ pending["c1"] # NoUpdate
    /\ pending["c1"].id = 1
    /\ 1 \in DOMAIN decks
    /\ res.op = "update"
    /\ res.status = 200
    /\ decks[1].updatedAt > pending["c1"].updatedAt
    /\ decks[1].name # pending["c1"].name
    /\ decks[1].cards # pending["c1"].cards

----------------------------------------------------------------------------
(* Properties of the App *)

\* A save of the generated deck is in flight: loading is true, the deck has
\* no id yet, and a call of saveDeckHandler is under way.
SaveInFlight ==
    /\ loading
    /\ currentDeck # Null
    /\ ~HasId(currentDeck)
    /\ saves # <<>>

\* C15: while a save of the generated deck is in flight, no step issues
\* another save: no call of saveDeckHandler is added to those under way.
C15_NoSecondSave ==
    [][SaveInFlight => Len(saves') <= Len(saves)]_vars

====
